---------------------------- MODULE Spec2Model ----------------------------
(***************************************************************************)
(* The trip-request extractor (extract_trip_details_from_text) and the     *)
(* itinerary synthesizer (generate_trip_itinerary) of src/main.py, and the  *)
(* two route handlers of the trip planner (extract_trip_plan,              *)
(* generate_trip_plan).                                                    *)
(*                                                                         *)
(* Spec serves one call at a time; SpecCalls keeps a log of the calls      *)
(* served, with the clock; SpecWorkers runs the calls of several workers   *)
(* interleaved, over a heap of the objects they construct.                 *)
(*                                                                         *)
(* Python strings that flow through the two functions are sequences of     *)
(* one-character strings, so that the regular-expression searches, the     *)
(* int()/str() conversions, lower() and the f-string templates are         *)
(* computed character by character as the code computes them.              *)
(***************************************************************************)
EXTENDS Integers, Sequences, FiniteSets, TLC

(***************************************************************************)
(* Bounds of the model.                                                    *)
(***************************************************************************)
\* the number of fragments a request text is composed of
MaxClauses == 2
\* the number of calls the log holds
MaxCalls == 3
\* the clock runs from 0 to MaxClock
MaxClock == 2
\* the number of worker threads
NumWorkers == 2
\* the budgets 0..MaxBudget are all given to the synthesizer
MaxBudget == 40

(***************************************************************************)
(* Characters and character classes of Python's re module (ASCII part).    *)
(***************************************************************************)
LOWER == <<"a","b","c","d","e","f","g","h","i","j","k","l","m","n","o","p","q","r","s","t","u","v","w","x","y","z">>
UPPER == <<"A","B","C","D","E","F","G","H","I","J","K","L","M","N","O","P","Q","R","S","T","U","V","W","X","Y","Z">>
DIGITS == <<"0","1","2","3","4","5","6","7","8","9">>

Range(s) == {s[i] : i \in 1..Len(s)}

\* \d
DigitChars == Range(DIGITS)
\* \s
SpaceChars == {" ", "\t", "\n"}
\* \w
WordChars == Range(LOWER) \cup Range(UPPER) \cup DigitChars \cup {"_"}

Min(S) == CHOOSE x \in S : \A y \in S : x <= y
Max(S) == CHOOSE x \in S : \A y \in S : x >= y

LowerChars == Range(LOWER)
UpperChars == Range(UPPER)
LowerOf == [c \in UpperChars |-> LOWER[CHOOSE i \in 1..26 : UPPER[i] = c]]

\* str.lower() of one character; also the case folding of re.IGNORECASE
lower_char(c) == IF c \in UpperChars THEN LowerOf[c] ELSE c

\* str.lower()
lower(s) == [i \in 1..Len(s) |-> lower_char(s[i])]

(***************************************************************************)
(* re.search(pattern, text, re.IGNORECASE), lines 454-458.                 *)
(*                                                                         *)
(* A pattern is a sequence of elements: a literal (matched ignoring case)  *)
(* or a character class under "+" (greedy, one or more), captured as       *)
(* group 1 or not.                                                         *)
(***************************************************************************)
Lit(s) == [kind |-> "lit", chars |-> s]
Plus(class) == [kind |-> "plus", class |-> class, capture |-> FALSE]
Group(class) == [kind |-> "plus", class |-> class, capture |-> TRUE]

\* re.IGNORECASE: a pattern character matches a text character of either case
\* (faulty variant: the flag is forgotten)
ignorecase_mut(p, c) == p = c
ignorecase(p, c) == lower_char(p) = lower_char(c)

\* the literal lit matches text t at position i
LitAt(t, i, lit) ==
    /\ i + Len(lit) - 1 <= Len(t)
    /\ \A k \in 1..Len(lit) : ignorecase(lit[k], t[i + k - 1])

\* the first position at or after i whose character is not in class
RECURSIVE RunEnd(_, _, _)
RunEnd(t, i, class) ==
    IF i <= Len(t) /\ t[i] \in class THEN RunEnd(t, i + 1, class) ELSE i

NoMatch == [ok |-> FALSE]

\* The match of elements k.. of pat at position i of t, group 1 being g so
\* far.  A "+" takes the longest run first and gives characters back until
\* the rest of the pattern matches (backtracking).
RECURSIVE MatchFrom(_, _, _, _, _)
MatchFrom(pat, k, t, i, g) ==
    IF k > Len(pat) THEN [ok |-> TRUE, group |-> g, end |-> i]
    ELSE LET e == pat[k] IN
         IF e.kind = "lit"
         THEN IF LitAt(t, i, e.chars)
              THEN MatchFrom(pat, k + 1, t, i + Len(e.chars), g)
              ELSE NoMatch
         ELSE LET stop == RunEnd(t, i, e.class)
                  rest(j) == MatchFrom(pat, k + 1, t, j,
                                 IF e.capture THEN SubSeq(t, i, j - 1) ELSE g)
                  fits == {j \in (i + 1)..stop : rest(j).ok}
              IN  IF fits = {} THEN NoMatch ELSE rest(Max(fits))

\* the start positions of text t at which pat matches
MatchStarts(pat, t) == {i \in 1..Len(t) : MatchFrom(pat, 1, t, i, <<>>).ok}

\* re.search scans the text from the left and returns the first match
\* (faulty variant: the last match, as of re.findall(...)[-1])
re_search_mut(pat, t) ==
    LET starts == MatchStarts(pat, t)
    IN  IF starts = {} THEN NoMatch
        ELSE MatchFrom(pat, 1, t, Max(starts), <<>>)
re_search(pat, t) ==
    LET starts == MatchStarts(pat, t)
    IN  IF starts = {} THEN NoMatch
        ELSE MatchFrom(pat, 1, t, Min(starts), <<>>)

\* r'from\s+(\w+)'
origin_pattern == <<Lit(<<"f","r","o","m">>), Plus(SpaceChars), Group(WordChars)>>
\* r'to\s+(\w+)'
\* (faulty variant: the keyword of the line above copied)
destination_pattern_mut == <<Lit(<<"f","r","o","m">>), Plus(SpaceChars), Group(WordChars)>>
\* (faulty variant: whitespace required before the keyword, r'\s+to\s+(\w+)')
destination_pattern_spaced ==
    <<Plus(SpaceChars), Lit(<<"t","o">>), Plus(SpaceChars), Group(WordChars)>>
destination_pattern == <<Lit(<<"t","o">>), Plus(SpaceChars), Group(WordChars)>>
\* r'(\d+)\s+days'
\* (faulty variant: any word before the keyword, r'(\w+)\s+days')
days_pattern_mut == <<Group(WordChars), Plus(SpaceChars), Lit(<<"d","a","y","s">>)>>
days_pattern == <<Group(DigitChars), Plus(SpaceChars), Lit(<<"d","a","y","s">>)>>
\* r'budget\s+(\d+)k'
\* (faulty variant: the suffix k left out, r'budget\s+(\d+)')
budget_pattern_mut == <<Lit(<<"b","u","d","g","e","t">>), Plus(SpaceChars), Group(DigitChars)>>
budget_pattern ==
    <<Lit(<<"b","u","d","g","e","t">>), Plus(SpaceChars), Group(DigitChars), Lit(<<"k">>)>>
\* r'(\d+)\s+friends'
\* (faulty variant: a word, not an integer, captured)
people_pattern_mut == <<Group(WordChars), Plus(SpaceChars), Lit(<<"f","r","i","e","n","d","s">>)>>
people_pattern == <<Group(DigitChars), Plus(SpaceChars), Lit(<<"f","r","i","e","n","d","s">>)>>

(***************************************************************************)
(* int(str) and str(int).                                                  *)
(***************************************************************************)
ValueError == [status |-> "ValueError"]

DigitValueOf == [c \in DigitChars |-> (CHOOSE i \in 1..10 : DIGITS[i] = c) - 1]
DigitValue(c) == DigitValueOf[c]

\* the number written by a sequence of decimal digits
RECURSIVE DigitsValue(_)
DigitsValue(s) ==
    IF s = <<>> THEN 0
    ELSE 10 * DigitsValue(SubSeq(s, 1, Len(s) - 1)) + DigitValue(s[Len(s)])

\* str.strip(): s without its leading and trailing whitespace
RECURSIVE Strip(_)
Strip(s) ==
    IF s = <<>> THEN s
    ELSE IF s[1] \in SpaceChars THEN Strip(Tail(s))
    ELSE IF s[Len(s)] \in SpaceChars THEN Strip(SubSeq(s, 1, Len(s) - 1))
    ELSE s

\* s without the characters in drop
RECURSIVE Without(_, _)
Without(s, drop) ==
    IF s = <<>> THEN s
    ELSE IF s[1] \in drop THEN Without(Tail(s), drop)
    ELSE <<s[1]>> \o Without(Tail(s), drop)

\* int(s) of a str: optional surrounding whitespace, an optional sign, then
\* decimal digits, single underscores allowed between digits; anything else
\* raises ValueError.
int(s) ==
    LET b == Strip(s)
        signed == b # <<>> /\ b[1] \in {"+", "-"}
        d == IF signed THEN Tail(b) ELSE b
        wellformed ==
            /\ d # <<>>
            /\ \A i \in 1..Len(d) : d[i] \in DigitChars \cup {"_"}
            /\ d[1] # "_" /\ d[Len(d)] # "_"
            /\ \A i \in 1..(Len(d) - 1) : ~(d[i] = "_" /\ d[i + 1] = "_")
        n == DigitsValue(Without(d, {"_"}))
    IN  IF ~wellformed THEN ValueError
        ELSE [status |-> "ok", value |-> IF signed /\ b[1] = "-" THEN 0 - n ELSE n]

\* str(n) of a non-negative int
RECURSIVE NatToStr(_)
NatToStr(n) ==
    IF n < 10 THEN <<DIGITS[n + 1]>>
    ELSE NatToStr(n \div 10) \o <<DIGITS[(n % 10) + 1]>>

\* str(n) of an int
str(n) == IF n < 0 THEN <<"-">> \o NatToStr(0 - n) ELSE NatToStr(n)

(***************************************************************************)
(* extract_trip_details_from_text, lines 448-476.                          *)
(***************************************************************************)
\* line 460
origin_of(m) == IF m.ok THEN m.group ELSE <<>>
\* line 461
destination_of(m) == IF m.ok THEN m.group ELSE <<>>
\* line 462
days_of(m) == IF m.ok THEN m.group ELSE <<>>
\* (faulty variant of line 463: "k" taken as hundred)
budget_of_mut(m) ==
    IF ~m.ok THEN [status |-> "ok", value |-> <<>>]
    ELSE LET n == int(m.group)
         IN  IF n.status # "ok" THEN ValueError
             ELSE [status |-> "ok", value |-> str(n.value * 100)]
\* line 463: str(int(group) * 1000), or ValueError when int() raises
budget_of(m) ==
    IF ~m.ok THEN [status |-> "ok", value |-> <<>>]
    ELSE LET n == int(m.group)
         IN  IF n.status # "ok" THEN ValueError
             ELSE [status |-> "ok", value |-> str(n.value * 1000)]
\* (faulty variant of line 464: the user not counted)
people_of_mut(m) ==
    IF ~m.ok THEN [status |-> "ok", value |-> <<"1">>]
    ELSE LET n == int(m.group)
         IN  IF n.status # "ok" THEN ValueError
             ELSE [status |-> "ok", value |-> str(n.value)]
\* line 464: str(int(group) + 1), "+1 to include the user"
people_of(m) ==
    IF ~m.ok THEN [status |-> "ok", value |-> <<"1">>]
    ELSE LET n == int(m.group)
         IN  IF n.status # "ok" THEN ValueError
             ELSE [status |-> "ok", value |-> str(n.value + 1)]

\* (faulty variant: preferences filled from the text)
fixed_fields_mut(text) ==
    [preferences |-> origin_of(re_search(origin_pattern, text)),
     tripType |-> <<"o","n","e","W","a","y">>,
     journeyDate |-> <<"t","o","d","a","y">>,
     travelClass |-> <<"e","c","o","n","o","m","y">>]
\* lines 466-476: the fields the text never reaches
fixed_fields(text) ==
    [preferences |-> <<>>,
     tripType |-> <<"o","n","e","W","a","y">>,
     journeyDate |-> <<"t","o","d","a","y">>,
     travelClass |-> <<"e","c","o","n","o","m","y">>]

\* lines 454-458: the five searches
matches_of(text) ==
    [origin |-> re_search(origin_pattern, text),
     destination |-> re_search(destination_pattern, text),
     days |-> re_search(days_pattern, text),
     budget |-> re_search(budget_pattern, text),
     people |-> re_search(people_pattern, text)]

\* lines 460-476: the fields of the five matches, and the dict returned
intent_of(matches, text) ==
    LET budget == budget_of(matches.budget)
        people == people_of(matches.people)
        fixed == fixed_fields(text)
    IN  IF budget.status # "ok" \/ people.status # "ok" THEN ValueError
        ELSE [status |-> "ok",
              output |-> [origin |-> origin_of(matches.origin),
                          destination |-> destination_of(matches.destination),
                          days |-> days_of(matches.days),
                          budget |-> budget.value,
                          people |-> people.value,
                          preferences |-> fixed.preferences,
                          tripType |-> fixed.tripType,
                          journeyDate |-> fixed.journeyDate,
                          travelClass |-> fixed.travelClass]]

extract_trip_details_from_text(text) == intent_of(matches_of(text), text)

(***************************************************************************)
(* generate_trip_itinerary, lines 478-645.                                 *)
(***************************************************************************)
\* int(x) of the float x = n / d: truncation toward zero.  The binary64
\* product total_budget * 0.4 (0.3, 0.25) truncates to the same integer as
\* the exact product for every |total_budget| below 2^49, which covers
\* every integer of the model.
\* (faulty variant: rounding up, math.ceil(x))
trunc_up(n, d) == 0 - ((0 - n) \div d)
trunc(n, d) == IF n >= 0 THEN n \div d ELSE 0 - ((0 - n) \div d)

\* line 495: int(total_budget * 0.4)
transportation_budget_of(total_budget) == trunc(total_budget * 4, 10)
\* (faulty variant of line 496: 35%)
food_budget_of_mut(total_budget) == trunc(total_budget * 35, 100)
\* line 496: int(total_budget * 0.3)
food_budget_of(total_budget) == trunc(total_budget * 3, 10)
\* line 497: int(total_budget * 0.25)
accommodation_budget_of(total_budget) == trunc(total_budget * 25, 100)
\* (faulty variant of line 498: a fourth truncated share, 5%)
misc_budget_of_mut(total_budget, transportation, food, accommodation) ==
    trunc(total_budget * 5, 100)
\* line 498
misc_budget_of(total_budget, transportation, food, accommodation) ==
    total_budget - transportation - food - accommodation

\* lines 506-514 with the total written from the parsed integer
budget_section_mut(budget, total_budget) ==
    LET transportation_budget == transportation_budget_of(total_budget)
        food_budget == food_budget_of(total_budget)
        accommodation_budget == accommodation_budget_of(total_budget)
        misc_budget == misc_budget_of(total_budget, transportation_budget,
                                      food_budget, accommodation_budget)
    IN  [total |-> str(total_budget),
         breakdown |-> [transportation |-> str(transportation_budget),
                        food |-> str(food_budget),
                        accommodation |-> str(accommodation_budget),
                        miscellaneous |-> str(misc_budget)]]

\* lines 506-514
budget_section(budget, total_budget) ==
    LET transportation_budget == transportation_budget_of(total_budget)
        food_budget == food_budget_of(total_budget)
        accommodation_budget == accommodation_budget_of(total_budget)
        misc_budget == misc_budget_of(total_budget, transportation_budget,
                                      food_budget, accommodation_budget)
    IN  [total |-> budget,
         breakdown |-> [transportation |-> str(transportation_budget),
                        food |-> str(food_budget),
                        accommodation |-> str(accommodation_budget),
                        miscellaneous |-> str(misc_budget)]]

\* line 502 with the preference clause appended unconditionally
trip_name_of_mut(origin, destination, days, people, preferences) ==
    origin \o <<" ","t","o"," ">> \o destination \o <<" ">> \o days
        \o <<" ","d","a","y","s"," ","t","r","i","p"," ","w","i","t","h"," ">> \o people \o <<" ","p","e","o","p","l","e">>
        \o <<" ","t","o"," ","e","n","j","o","y"," ","t","h","e"," ">> \o preferences

\* line 502
trip_name_of(origin, destination, days, people, preferences) ==
    origin \o <<" ","t","o"," ">> \o destination \o <<" ">> \o days
        \o <<" ","d","a","y","s"," ","t","r","i","p"," ","w","i","t","h"," ">> \o people \o <<" ","p","e","o","p","l","e">>
        \o (IF preferences # <<>> THEN <<" ","t","o"," ","e","n","j","o","y"," ","t","h","e"," ">> \o preferences
            ELSE <<>>)

\* lines 522-526
origin_point(origin) ==
    [location |-> origin,
     latitude |-> IF lower(origin) = <<"d","h","a","k","a">> THEN "23.8103" ELSE "24.1233",
     longitude |-> IF lower(origin) = <<"d","h","a","k","a">> THEN "90.4125" ELSE "90.5678"]
\* lines 527-531
destination_point(destination) ==
    [location |-> destination,
     latitude |-> IF lower(destination) = <<"s","y","l","h","e","t">> THEN "24.8949"
                  ELSE "23.9876",
     longitude |-> IF lower(destination) = <<"s","y","l","h","e","t">> THEN "91.8687"
                   ELSE "91.4567"]
\* lines 532-536
logistics_of(origin, destination) ==
    [departure_time |-> "06:00 AM",
     arrival_time |-> "12:00 PM",
     tips |-> <<"T","a","k","e"," ","a","n"," ","e","a","r","l","y"," ","m","o","r","n","i","n","g"," ","b","u","s"," ","f","r","o","m"," ">> \o origin \o <<" ","t","o"," ">>
              \o destination
              \o <<" ","t","o"," ","e","n","j","o","y"," ","t","h","e"," ","s","c","e","n","i","c"," ","b","e","a","u","t","y"," ","a","l","o","n","g"," ","t","h","e"," ","w","a","y",".">>]
\* lines 520-538 with a second leg back to the origin
checkpoints_of_mut(origin, destination) ==
    <<[origin |-> origin_point(origin),
       destination |-> destination_point(destination),
       logistics |-> logistics_of(origin, destination)],
      [origin |-> origin_point(destination),
       destination |-> destination_point(origin),
       logistics |-> logistics_of(destination, origin)]>>

\* lines 520-538
checkpoints_of(origin, destination) ==
    <<[origin |-> origin_point(origin),
       destination |-> destination_point(destination),
       logistics |-> logistics_of(origin, destination)]>>

\* lines 539-579
food_catalog ==
    [day1 |->
      [breakfast |-> [title |-> "Panshi Restaurant",
                      address |-> "Jallarpar Rd, Sylhet 3100",
                      latitude |-> "24.895068799999997",
                      longitude |-> "91.8674443",
                      rating |-> "4.2", ratingCount |-> 18000,
                      category |-> "Bangladeshi restaurant",
                      phoneNumber |-> "01761-152939",
                      cid |-> "4184260984599101480", cost |-> "150"],
       launch |-> [title |-> "Pach Bhai Restaurant",
                   address |-> "Jallarpar Rd, Sylhet 3100",
                   latitude |-> "24.8946981",
                   longitude |-> "91.8664029",
                   rating |-> "4.3", ratingCount |-> 16000,
                   category |-> "Bangladeshi restaurant",
                   phoneNumber |-> "01710-459607",
                   cid |-> "1251724275242512479", cost |-> "200"],
       dinner |-> [title |-> "The Mad Grill",
                   address |-> "Nayasarak Point, Manik Pir Road, 3100",
                   latitude |-> "24.8995748",
                   longitude |-> "91.87515789999999",
                   rating |-> "4.3", ratingCount |-> 2300,
                   category |-> "Restaurant",
                   phoneNumber |-> "01954-556677",
                   website |-> "https://www.facebook.com/themadgrill/",
                   cid |-> "9696671651361504064", cost |-> "250"]]]

\* lines 580-604
accommodation_catalog ==
    [option1 |-> [title |-> "The Grand Hotel",
                  address |-> "4th Floor, H. S. Tower, HS Tower 3rd Floor Waves -1 East, Waves-1 Dargah Gate, Sylhet 3100",
                  latitude |-> "24.901723",
                  longitude |-> "91.86977929999999",
                  rating |-> 4, ratingCount |-> 564,
                  category |-> "Hotel",
                  phoneNumber |-> "01970-793366",
                  cid |-> "16335710689796874260"],
     option2 |-> [title |-> "Hotel Noorjahan Grand",
                  address |-> "Waves 1 Dargah Gate, Sylhet 3100",
                  latitude |-> "24.901979599999997",
                  longitude |-> "91.8696968",
                  rating |-> "4.2", ratingCount |-> 2900,
                  category |-> "Hotel",
                  phoneNumber |-> "01930-111666",
                  website |-> "http://www.noorjahangrand.com/",
                  cid |-> "15253580246980481310"]]

\* lines 605-630
weather_outlook ==
    <<[date |-> "2024-10-24", temperature |-> "28.5",
       conditions |-> "Partly Cloudy", humidity |-> 72,
       wind_speed |-> "8.5", precipitation_chance |-> "15.0"],
      [date |-> "2024-10-25", temperature |-> "29.2",
       conditions |-> "Sunny", humidity |-> 70,
       wind_speed |-> "7.2", precipitation_chance |-> "5.0"],
      [date |-> "2024-10-26", temperature |-> "27.8",
       conditions |-> "Light Rain", humidity |-> 85,
       wind_speed |-> "10.5", precipitation_chance |-> "60.0"]>>

\* lines 631-644
traffic_outlook ==
    [current |-> [level |-> "MODERATE",
                  estimated_delay_minutes |-> 25,
                  congestion_points |-> <<"Mohakhali Flyover",
                                          "Kuril Bishwa Road">>,
                  best_departure_time |-> "05:30 AM"],
     forecast |-> [morning_rush |-> "HIGH",
                   evening_rush |-> "VERY_HIGH",
                   weekend_traffic |-> "MODERATE",
                   road_conditions |->
                       "Good with some construction near the destination"]]

\* lines 501-645: the dict returned, total_budget being the int of line 494
itinerary_of(origin, destination, days, budget, people, preferences, trip_type, journey_date, travel_class, total_budget) ==
    [trip_name |-> trip_name_of(origin, destination, days, people,
                                preferences),
     origin |-> origin,
     destination |-> destination,
     days |-> days,
     budget |-> budget_section(budget, total_budget),
     people |-> people,
     preferences |-> preferences,
     tripType |-> trip_type,
     journeyDate |-> journey_date,
     travelClass |-> travel_class,
     checkpoints |-> checkpoints_of(origin, destination),
     food |-> food_catalog,
     accommodation |-> accommodation_catalog,
     weather |-> weather_outlook,
     traffic |-> traffic_outlook]

\* line 494: total_budget = int(budget) raises ValueError, or the function
\* returns the dict of lines 501-645
generate_trip_itinerary(origin, destination, days, budget, people, preferences, trip_type, journey_date, travel_class) ==
    LET total_budget == int(budget)
    IN  IF total_budget.status # "ok" THEN ValueError
        ELSE [status |-> "ok",
              output |-> itinerary_of(origin, destination, days, budget,
                                      people, preferences, trip_type,
                                      journey_date, travel_class,
                                      total_budget.value)]

(***************************************************************************)
(* The route handlers of the trip planner: GET /v1/tripPlan/extract        *)
(* (extract_trip_plan, lines 1267-1291) and GET /v1/tripPlan               *)
(* (generate_trip_plan, lines 1487-1525).                                  *)
(***************************************************************************)
\* a query parameter that was not given (Query(None, ...))
Absent == [status |-> "absent"]

\* a query parameter with the value v
Given(v) == [status |-> "given", value |-> v]

\* the response of the framework to a query that fails the declared
\* constraints (ge, le)
Unprocessable == [status |-> "422"]

\* lines 1274-1291: the body does not depend on text
extract_trip_plan(text) ==
    [status |-> "200",
     body |->
       [output |-> [origin |-> <<"D","h","a","k","a">>,
                    destination |-> <<"S","y","l","h","e","t">>,
                    days |-> <<"4">>,
                    budget |-> <<"5","0","0","0">>,
                    people |-> <<"4">>,
                    preferences |-> <<>>,
                    tripType |-> <<"o","n","e","W","a","y">>,
                    journeyDate |-> <<"t","o","d","a","y">>,
                    travelClass |-> <<"e","c","o","n","o","m","y">>],
        metadata |-> [run_id |-> "3e2d0a89-be92-45ef-8e10-1d64f7bd24ec",
                      feedback_tokens |-> <<>>]]]

\* lines 1490-1492: days in 1..30, budget >= 0, people >= 1, each optional
valid_trip_plan_query(days, budget, people) ==
    /\ days # Absent => (days.value >= 1 /\ days.value <= 30)
    /\ budget # Absent => budget.value >= 0
    /\ people # Absent => people.value >= 1

\* lines 1497-1525: the body depends on none of the six parameters
generate_trip_plan(origin, destination, start_date, days, budget, people) ==
    IF ~valid_trip_plan_query(days, budget, people) THEN Unprocessable
    ELSE
    [status |-> "200",
     body |->
       [output |->
          [trip_name |->
             <<"D","h","a","k","a"," ","t","o"," ","S","y","l","h","e","t"," ","3"," ","d","a","y","s"," ","t","r","i","p"," ","w","i","t","h"," ","4"," ","p","e","o","p","l","e"," ","t","o"," ","e","n","j","o","y"," ","t","h","e"," ","h","i","l","l">>,
           origin |-> <<"D","h","a","k","a">>,
           destination |-> <<"S","y","l","h","e","t">>,
           days |-> <<"3">>,
           budget |-> [total |-> <<"2","0","0","0">>,
                       breakdown |-> [transportation |-> <<"8","0","0">>,
                                      food |-> <<"6","0","0">>,
                                      accommodation |-> <<"5","0","0">>,
                                      miscellaneous |-> <<"1","0","0">>]],
           people |-> <<"4">>,
           preferences |-> <<"h","i","l","l">>,
           tripType |-> <<"o","n","e","W","a","y">>,
           journeyDate |-> <<"2","4","/","1","0","/","2","0","2","4">>,
           travelClass |-> <<"e","c","o","n","o","m","y">>],
        metadata |-> [run_id |-> "6fff0355-b8e0-47c9-9776-40664d30d169",
                      feedback_tokens |-> <<>>]]]

\* lines 1299-1479: the output of the example response that the route
\* GET /v1/tripPlan documents
documented_example ==
    [trip_name |-> <<"D","h","a","k","a"," ","t","o"," ","S","y","l","h","e","t"," ","3"," ","d","a","y","s"," ","t","r","i","p"," ","w","i","t","h"," ","4"," ","p","e","o","p","l","e"," ","t","o"," ","e","n","j","o","y"," ","t","h","e"," ","h","i","l","l">>,
     origin |-> <<"D","h","a","k","a">>,
     destination |-> <<"S","y","l","h","e","t">>,
     days |-> <<"3">>,
     budget |-> [total |-> <<"2","0","0","0">>,
       breakdown |-> [transportation |-> <<"8","0","0">>,
         food |-> <<"6","0","0">>,
         accommodation |-> <<"5","0","0">>,
         miscellaneous |-> <<"1","0","0">>]],
     people |-> <<"4">>,
     preferences |-> <<"h","i","l","l">>,
     tripType |-> <<"o","n","e","W","a","y">>,
     journeyDate |-> <<"2","4","/","1","0","/","2","0","2","4">>,
     travelClass |-> <<"e","c","o","n","o","m","y">>,
     checkpoints |-> <<[origin |-> [location |-> <<"D","h","a","k","a">>,
           latitude |-> "23.8103",
           longitude |-> "90.4125"],
         destination |-> [location |-> <<"S","y","l","h","e","t">>,
           latitude |-> "24.8949",
           longitude |-> "91.8687"],
         logistics |-> [departure_time |-> "06:00 AM",
           arrival_time |-> "12:00 PM",
           tips |-> <<"T","a","k","e"," ","a","n"," ","e","a","r","l","y"," ","m","o","r","n","i","n","g"," ","b","u","s"," ","f","r","o","m"," ","D","h","a","k","a"," ","t","o"," ","S","y","l","h","e","t"," ","t","o"," ","e","n","j","o","y"," ","t","h","e"," ","s","c","e","n","i","c"," ","b","e","a","u","t","y"," ","a","l","o","n","g"," ","t","h","e"," ","w","a","y",".">>]]>>,
     food |-> [day1 |-> [breakfast |-> [title |-> "Panshi Restaurant",
           address |-> "Jallarpar Rd, Sylhet 3100",
           latitude |-> "24.895068799999997",
           longitude |-> "91.8674443",
           rating |-> "4.2",
           ratingCount |-> 18000,
           category |-> "Bangladeshi restaurant",
           phoneNumber |-> "01761-152939",
           cid |-> "4184260984599101480",
           cost |-> "150"],
         launch |-> [title |-> "Pach Bhai Restaurant",
           address |-> "Jallarpar Rd, Sylhet 3100",
           latitude |-> "24.8946981",
           longitude |-> "91.8664029",
           rating |-> "4.3",
           ratingCount |-> 16000,
           category |-> "Bangladeshi restaurant",
           phoneNumber |-> "01710-459607",
           cid |-> "1251724275242512479",
           cost |-> "200"],
         dinner |-> [title |-> "The Mad Grill",
           address |-> "Nayasarak Point, Manik Pir Road, 3100",
           latitude |-> "24.8995748",
           longitude |-> "91.87515789999999",
           rating |-> "4.3",
           ratingCount |-> 2300,
           category |-> "Restaurant",
           phoneNumber |-> "01954-556677",
           website |-> "https://www.facebook.com/themadgrill/",
           cid |-> "9696671651361504064",
           cost |-> "250"]]],
     accommodation |-> [option1 |-> [title |-> "The Grand Hotel",
         address |-> "4th Floor, H. S. Tower, HS Tower 3rd Floor Waves -1 East, Waves-1 Dargah Gate, Sylhet 3100",
         latitude |-> "24.901723",
         longitude |-> "91.86977929999999",
         rating |-> 4,
         ratingCount |-> 564,
         category |-> "Hotel",
         phoneNumber |-> "01970-793366",
         cid |-> "16335710689796874260"],
       option2 |-> [title |-> "Hotel Noorjahan Grand",
         address |-> "Waves 1 Dargah Gate, Sylhet 3100",
         latitude |-> "24.901979599999997",
         longitude |-> "91.8696968",
         rating |-> "4.2",
         ratingCount |-> 2900,
         category |-> "Hotel",
         phoneNumber |-> "01930-111666",
         website |-> "http://www.noorjahangrand.com/",
         cid |-> "15253580246980481310"]],
     weather |-> <<[date |-> "2024-10-24",
         temperature |-> "28.5",
         conditions |-> "Partly Cloudy",
         humidity |-> 72,
         wind_speed |-> "8.5",
         precipitation_chance |-> "15.0"],
        [date |-> "2024-10-25",
         temperature |-> "29.2",
         conditions |-> "Sunny",
         humidity |-> 70,
         wind_speed |-> "7.2",
         precipitation_chance |-> "5.0"],
        [date |-> "2024-10-26",
         temperature |-> "27.8",
         conditions |-> "Light Rain",
         humidity |-> 85,
         wind_speed |-> "10.5",
         precipitation_chance |-> "60.0"]>>,
     traffic |-> [current |-> [level |-> "MODERATE",
         estimated_delay_minutes |-> 25,
         congestion_points |-> <<"Mohakhali Flyover",
            "Kuril Bishwa Road">>,
         best_departure_time |-> "05:30 AM"],
       forecast |-> [morning_rush |-> "HIGH",
         evening_rush |-> "VERY_HIGH",
         weekend_traffic |-> "MODERATE",
         road_conditions |-> "Good with some construction near the destination"]],
     spotSuggestions |-> <<[name |-> "Ratargul Swamp Forest",
         description |-> "A freshwater swamp forest famous for boat rides through submerged trees.",
         latitude |-> "25.0056",
         longitude |-> "91.9583",
         recommendedTime |-> "Morning",
         estimatedDurationHours |-> 3],
        [name |-> "Jaflong",
         description |-> "A scenic border area with hills, rivers, and stone collection activities.",
         latitude |-> "25.1597",
         longitude |-> "92.0216",
         recommendedTime |-> "Afternoon",
         estimatedDurationHours |-> 4],
        [name |-> "Bisnakandi",
         description |-> "A beautiful spot where several streams from Meghalaya converge.",
         latitude |-> "25.2282",
         longitude |-> "92.0078",
         recommendedTime |-> "Morning or Early Afternoon",
         estimatedDurationHours |-> 3],
        [name |-> "Hazrat Shah Jalal Mazar",
         description |-> "A historical and religious shrine in the heart of Sylhet.",
         latitude |-> "24.8992",
         longitude |-> "91.8701",
         recommendedTime |-> "Evening",
         estimatedDurationHours |-> 1]>>]

(***************************************************************************)
(* The inputs the two functions are called with.                           *)
(***************************************************************************)
\* the example request of the extract route (line 1269) and of the spec
ExampleText ==
    <<"t","r","i","p"," ","f","r","o","m"," ","D","h","a","k","a"," ","t","o"," ","S","y","l","h","e","t"," ","w","i","t","h"," ","3"," ","f","r","i","e","n","d","s"," ","4"," ","d","a","y","s"," ","b","u","d","g","e","t"," ","5","k">>
\* the same five clauses in another order, with other values and letter case
ReorderedText ==
    <<"B","u","d","g","e","t"," ","1","2","K"," ","f","o","r"," ","2"," ","D","A","Y","S"," ","T","o"," ","K","h","u","l","n","a"," ","F","r","o","m"," ","S","y","l","h","e","t"," ","w","i","t","h"," ","0"," ","F","r","i","e","n","d","s">>

\* the pieces a request text is composed of
Fragments ==
    {ExampleText, ReorderedText,
     <<"f","r","o","m"," ","K","h","u","l","n","a"," ","f","o","r"," ","2"," ","d","a","y","s">>, <<"F","R","O","M"," ","T","o","r","o","n","t","o">>, <<"t","o"," ","S","y","l","h","e","t">>,
     <<"p","h","o","t","o"," ","s","h","o","o","t">>, <<"t","h","e","r","e","f","r","o","m"," ","s","o","u","t","h">>, <<"7"," ","f","r","i","e","n","d","s">>, <<"b","u","d","g","e","t"," ","2","0","k">>,
     <<"b","u","d","g","e","t"," ","5","0","0","0">>, <<"b","u","d","g","e","t",":"," ","5","k">>,
     <<"f","o","u","r"," ","d","a","y","s"," ","t","h","r","e","e"," ","f","r","i","e","n","d","s"," ","b","u","d","g","e","t"," ","f","i","v","e"," ","k">>}

\* budgets that are no plain non-negative integer numeral, and the budgets
\* of the documented examples
SampleBudgets ==
    {<<>>, <<"a","b","c">>, <<"-","1","0","0">>, <<"2","0","0","0",".","5">>, <<" ","4","2"," ">>, <<"+","7">>, <<"1","_","0","0","0">>,
     <<"2","0","0","0">>, <<"5","0","0","0">>}

Budgets == {str(n) : n \in 0..MaxBudget} \cup SampleBudgets

Origins == {<<"D","h","a","k","a">>, <<"D","H","A","K","A">>, <<"S","y","l","h","e","t">>, <<>>}
Destinations == {<<"S","y","l","h","e","t">>, <<"s","y","l","h","e","t">>, <<"D","h","a","k","a">>, <<>>}
DaysArgs == {<<"3">>, <<>>}
PeopleArgs == {<<"4">>, <<"x">>}
PreferencesArgs == {<<>>, <<"h","i","l","l">>}
TripTypes == {<<"o","n","e","W","a","y">>, <<>>}
JourneyDates == {<<"2","4","/","1","0","/","2","0","2","4">>, <<"t","o","d","a","y">>}
TravelClasses == {<<"e","c","o","n","o","m","y">>, <<"f","i","r","s","t">>}

\* the intent records the request layer builds from its parameters
Intents ==
    [origin : Origins, destination : Destinations, days : DaysArgs,
     budget : Budgets, people : PeopleArgs, preferences : PreferencesArgs,
     tripType : TripTypes, journeyDate : JourneyDates,
     travelClass : TravelClasses]

\* the queries of GET /v1/tripPlan: each parameter may be absent; days,
\* budget and people also take values outside the declared ranges
TripPlanQueries ==
    [origin : {Absent, Given(<<"D","h","a","k","a">>), Given(<<"K","h","u","l","n","a">>)},
     destination : {Absent, Given(<<"S","y","l","h","e","t">>)},
     start_date : {Absent, Given(<<"2","0","2","4","-","1","0","-","2","4">>)},
     days : {Absent, Given(0), Given(3), Given(31)},
     budget : {Absent, Given(-1), Given(2000)},
     people : {Absent, Given(0), Given(4)}]

(***************************************************************************)
(* The documentation schema of the application.  A schema is modelled by   *)
(* its paths: for each path and method, the status codes of the responses  *)
(* of that operation.                                                      *)
(***************************************************************************)
\* the routes of the application (lines 652..1824, included at 1854..1862):
\* path, method, declared status code, and the number of path, query and
\* body parameters of the handler
Route(p, m, s, n) == [path |-> p, method |-> m, status_code |-> s, params |-> n]

Routes ==
    <<Route("/v1/auth/register", "post", "201", 1),
      Route("/v1/auth/login", "post", "200", 1),
      Route("/v1/auth/forgot-password", "post", "200", 1),
      Route("/v1/auth/reset-password", "post", "200", 1),
      Route("/v1/groups", "post", "201", 1),
      Route("/v1/groups/{group_id}/invite", "post", "200", 2),
      Route("/v1/groups/{group_id}/join", "post", "200", 1),
      Route("/v1/groups", "get", "200", 2),
      Route("/v1/blogs", "post", "201", 1),
      Route("/v1/blogs", "get", "200", 4),
      Route("/v1/weather/forecast/{trip_id}", "get", "200", 1),
      Route("/v1/weather/check", "post", "200", 1),
      Route("/v1/weather/trip/confirm-change", "post", "200", 1),
      Route("/v1/traffic/info/{trip_id}", "get", "200", 1),
      Route("/v1/tripPlan/extract", "get", "200", 1),
      Route("/v1/tripPlan", "get", "200", 6),
      Route("/v1/profile", "get", "200", 1),
      Route("/v1/profile/trips/{trip_id}", "get", "200", 1),
      Route("/v1/profile/trips/{trip_id}/todolist/visit", "put", "200", 2),
      Route("/v1/profile/trips/{trip_id}/todolist", "post", "200", 2),
      Route("/v1/home", "get", "200", 0),
      Route("/v1/about", "get", "200", 0)>>

\* get_openapi(routes=...): every operation documents the response of its
\* status code, and a "422" response when the handler takes parameters
operation_of(route) ==
    [responses |-> {route.status_code} \cup
                   (IF route.params > 0 THEN {"422"} ELSE {})]

get_openapi(routes) ==
    LET rs == Range(routes)
        ps == {r.path : r \in rs}
    IN  [status |-> "schema",
         paths |-> [p \in ps |->
                      [m \in {r.method : r \in {q \in rs : q.path = p}} |->
                          operation_of(CHOOSE r \in rs :
                                           r.path = p /\ r.method = m)]]]

\* the loop of custom_openapi, with the deletion left out
remove_422_mut(openapi_schema) == openapi_schema

\* the loop of custom_openapi: del ...["responses"]["422"] where present
remove_422(openapi_schema) ==
    LET paths == openapi_schema.paths
        without(operation) ==
            IF "422" \in operation.responses
            THEN [operation EXCEPT !.responses = @ \ {"422"}]
            ELSE operation
    IN  [openapi_schema EXCEPT
            !.paths = [p \in DOMAIN paths |->
                          [m \in DOMAIN paths[p] |-> without(paths[p][m])]]]

\* the truth value of app.openapi_schema: None is false, a schema is true
Truthy(x) == x.status # "none"

\* custom_openapi, given app.openapi_schema: the schema it returns and
\* stores, and the number of times it called get_openapi
custom_openapi_uncached(app_openapi_schema) ==
    [schema |-> remove_422(get_openapi(Routes)), generated |-> 1]

custom_openapi(app_openapi_schema) ==
    IF Truthy(app_openapi_schema)
    THEN [schema |-> app_openapi_schema, generated |-> 0]
    ELSE [schema |-> remove_422(get_openapi(Routes)), generated |-> 1]

(***************************************************************************)
(* Authentication.  A bearer token is modelled by what its compact         *)
(* serialization holds: whether it is three well-formed segments, the      *)
(* algorithm of its header, the key it was signed with, and the 'sub' and  *)
(* 'exp' claims of its payload.  Times are minutes.                        *)
(***************************************************************************)
SECRET_KEY == "your-secret-key-for-jwt-should-be-very-secure-in-production"
ALGORITHM == "HS256"

\* a claim of a payload: absent, or a JSON value with its type
NoClaim == [type |-> "absent", text |-> ""]
Claim(type, text) == [type |-> type, text |-> text]

Jwt(alg, key, sub, exp) == [wellformed |-> TRUE, alg |-> alg, key |-> key, sub |-> sub, exp |-> exp]

\* the string "eyJhbGciOiJIUzI1NiIsInR5cCI6IkpXVCJ9...": a header segment
\* that reads {"alg":"HS256","typ":"JWT"}, then an empty payload and an
\* empty signature
StubToken == [wellformed |-> FALSE, alg |-> "HS256", key |-> "", sub |-> NoClaim, exp |-> Absent]

\* the default lifetime of create_access_token, in minutes
DefaultExpireMinutes == 15

\* jwt.encode(to_encode, SECRET_KEY, algorithm=ALGORITHM) of the data with
\* 'exp' set to the time of the call plus the lifetime
create_access_token(data, expires_delta, utcnow) ==
    LET expire == IF expires_delta.status = "given"
                  THEN utcnow + expires_delta.value
                  ELSE utcnow + DefaultExpireMinutes
    IN  Jwt(ALGORITHM, SECRET_KEY, data.sub, Given(expire))

PyJWTError(e) == [status |-> "PyJWTError", error |-> e]

\* jwt.decode(token, key, algorithms=...): the payload, or the error of the
\* first validation that fails (a 'sub' that is present must be a string)
jwt_decode(token, key, algorithms, utcnow) ==
    IF ~token.wellformed THEN PyJWTError("DecodeError")
    ELSE IF token.alg \notin algorithms THEN PyJWTError("InvalidAlgorithmError")
    ELSE IF token.key # key THEN PyJWTError("InvalidSignatureError")
    ELSE IF token.exp.status = "given" /\ token.exp.value <= utcnow
         THEN PyJWTError("ExpiredSignatureError")
    ELSE IF token.sub.type \notin {"absent", "str"}
         THEN PyJWTError("InvalidSubjectError")
    ELSE [status |-> "ok", payload |-> [sub |-> token.sub, exp |-> token.exp]]

credentials_exception ==
    [status |-> "401", detail |-> "Could not validate credentials"]

\* OAuth2PasswordBearer without an Authorization header
not_authenticated == [status |-> "401", detail |-> "Not authenticated"]

mock_user(id, now) ==
    [status |-> "ok",
     user |-> [id |-> id, username |-> "testuser", email |-> "test@example.com",
               full_name |-> "Test User", created_at |-> now]]

\* get_current_user without the check of the subject
get_current_user_mut(token, now) ==
    LET decoded == jwt_decode(token, SECRET_KEY, {ALGORITHM}, now)
    IN  IF decoded.status # "ok" THEN credentials_exception
        ELSE mock_user(decoded.payload.sub.text, now)

get_current_user(token, now) ==
    LET decoded == jwt_decode(token, SECRET_KEY, {ALGORITHM}, now)
    IN  IF decoded.status # "ok" THEN credentials_exception
        ELSE IF decoded.payload.sub.type = "absent" THEN credentials_exception
        ELSE mock_user(decoded.payload.sub.text, now)

\* POST /v1/auth/login
login(user_data) ==
    [status |-> "200",
     output |-> [access_token |-> StubToken, refresh_token |-> StubToken,
                 token_type |-> "bearer"]]

\* POST /v1/groups/{group_id}/join, once its dependency has a user
join_group(group_id, current_user) ==
    [status |-> "200",
     output |-> [message |-> "Successfully joined the group",
                 group_id |-> group_id,
                 group_name |-> "Europe Summer Trip"]]

\* the value of Depends(get_current_user) for a request: the bearer token
\* of its Authorization header goes through get_current_user
current_user_of(authorization, now) ==
    IF authorization.status = "none" THEN not_authenticated
    ELSE get_current_user(authorization.value, now)

\* the route: the handler runs only when its dependency raised nothing
post_join(group_id, authorization, now) ==
    LET current_user == current_user_of(authorization, now)
    IN  IF current_user.status # "ok" THEN current_user
        ELSE join_group(group_id, current_user.user)

\* the inputs of the application
UserLogins ==
    {[email |-> "user@example.com", password |-> "securepassword123"],
     [email |-> "test@example.com", password |-> "wrong"]}

GroupIds == {"123", "456"}

Subjects ==
    {NoClaim, Claim("null", "null"), Claim("int", "7"),
     Claim("str", ""), Claim("str", "user123")}

Expiries == {Absent} \cup {Given(n) : n \in 1..MaxClock}

\* the tokens a client can present: the stub of login, well-signed tokens
\* of every subject and of every expiry, a token of another algorithm and
\* a token signed with another key
Tokens ==
    {StubToken} \cup
    {Jwt(ALGORITHM, SECRET_KEY, s, Absent) : s \in Subjects} \cup
    {Jwt(ALGORITHM, SECRET_KEY, Claim("str", "user123"), e) : e \in Expiries} \cup
    {Jwt("none", "", Claim("str", "user123"), Absent),
     Jwt(ALGORITHM, "guess", Claim("str", "user123"), Absent)}

TokenData == {[sub |-> NoClaim], [sub |-> Claim("str", "user123")]}

Lifetimes == {Absent, Given(1)}

(***************************************************************************)
(* The state: the request being served and its response.                   *)
(***************************************************************************)
VARIABLES
    text,       \* the text of the extract request, as composed so far
    clauses,    \* the number of fragments in text
    intent,     \* the result of extract_trip_details_from_text(text)
    request,    \* the arguments of the call of generate_trip_itinerary
    itinerary,  \* the result of that call
    query,      \* the query of the route handler that was called
    response,   \* the response of that route handler
    clock,      \* the time of the process (datetime.now())
    log,        \* the calls served so far, with their results
    frames,     \* the invocation each worker is running, with its locals
    heap,       \* the objects the invocations have constructed
    parts,      \* the clauses the text was written from, in their order
    openapi_schema, \* app.openapi_schema
    generated,  \* the number of calls of get_openapi so far
    bearer,     \* the token the client holds, and where it has it from
    reply       \* the last call of the application, with its result

\* the variables of the two functions, and those of the route handlers
core == <<text, clauses, intent, request, itinerary>>
http == <<query, response>>
hist == <<clock, log>>
conc == <<frames, heap>>
app == <<openapi_schema, generated, bearer, reply>>

vars == <<core, http, hist, conc, parts, app>>

None == [status |-> "none"]

\* the worker threads of the server
Workers == 1..NumWorkers

\* a worker that runs no invocation
NoFrame == [pc |-> "idle"]

Init ==
    /\ text = <<>>
    /\ clauses = 0
    /\ intent = None
    /\ request = None
    /\ itinerary = None
    /\ query = None
    /\ response = None
    /\ clock = 0
    /\ log = <<>>
    /\ frames = [w \in Workers |-> NoFrame]
    /\ heap = <<>>
    /\ parts = <<>>
    /\ openapi_schema = None
    /\ generated = 0
    /\ bearer = None
    /\ reply = None

\* no call is being served
Idle == intent = None /\ request = None /\ query = None

\* the client writes one more fragment of the request text
Compose(f) ==
    /\ clauses < MaxClauses
    /\ Idle
    /\ text' = IF text = <<>> THEN f ELSE text \o <<" ">> \o f
    /\ clauses' = clauses + 1
    /\ UNCHANGED <<intent, request, itinerary, http, hist, conc, parts, app>>

\* extract(text)
Extract ==
    /\ Idle
    /\ intent' = extract_trip_details_from_text(text)
    /\ UNCHANGED <<text, clauses, request, itinerary, http, hist, conc, parts, app>>

\* the call with the departure "today" resolved by the clock
Call_today(args) ==
    LET r == generate_trip_itinerary(args.origin, args.destination,
                 args.days, args.budget, args.people, args.preferences,
                 args.tripType, args.journeyDate, args.travelClass)
    IN  IF r.status = "ok" /\ args.journeyDate = <<"t","o","d","a","y">>
        THEN [r EXCEPT !.output.journeyDate = str(clock)]
        ELSE r

\* the call with meal and lodging picks only for the destination Sylhet
Call_local(args) ==
    LET r == generate_trip_itinerary(args.origin, args.destination,
                 args.days, args.budget, args.people, args.preferences,
                 args.tripType, args.journeyDate, args.travelClass)
    IN  IF r.status = "ok" /\ lower(args.destination) # <<"s","y","l","h","e","t">>
        THEN [r EXCEPT !.output.food = <<>>, !.output.accommodation = <<>>]
        ELSE r

\* lines 478-488: the call of the synthesizer with the fields of an intent
Call(args) ==
    generate_trip_itinerary(args.origin, args.destination, args.days,
                            args.budget, args.people, args.preferences,
                            args.tripType, args.journeyDate, args.travelClass)

\* synthesize(extract(text)): the intent record is passed on as it is
SynthesizeIntent ==
    /\ intent.status = "ok"
    /\ request = None
    /\ request' = [status |-> "called", args |-> intent.output]
    /\ itinerary' = Call(intent.output)
    /\ UNCHANGED <<text, clauses, intent, http, hist, conc, parts, app>>

\* synthesize(intent) for an intent record the request layer has built
Synthesize ==
    /\ clauses = 0 /\ Idle
    /\ \E args \in Intents :
          /\ request' = [status |-> "called", args |-> args]
          /\ itinerary' = Call(args)
    /\ UNCHANGED <<text, clauses, intent, http, hist, conc, parts, app>>

\* GET /v1/tripPlan/extract?text=...
GetExtract ==
    /\ Idle
    /\ query' = [route |-> "extract", text |-> text]
    /\ response' = extract_trip_plan(text)
    /\ UNCHANGED <<core, hist, conc, parts, app>>

\* GET /v1/tripPlan?origin=...&destination=...&start_date=...&days=...
\*                 &budget=...&people=...
GetTripPlan ==
    /\ clauses = 0 /\ Idle
    /\ \E q \in TripPlanQueries :
          /\ query' = [route |-> "tripPlan", params |-> q]
          /\ response' = generate_trip_plan(q.origin, q.destination,
                                            q.start_date, q.days, q.budget,
                                            q.people)
    /\ UNCHANGED <<core, hist, conc, parts, app>>

\* The response is returned; nothing of the request is kept (no persisted
\* state, no module-level table is written by either function).
Respond ==
    /\ ~Idle
    /\ text' = <<>>
    /\ clauses' = 0
    /\ intent' = None
    /\ request' = None
    /\ itinerary' = None
    /\ query' = None
    /\ response' = None
    /\ UNCHANGED <<hist, conc, parts, app>>

Next ==
    \/ \E f \in Fragments : Compose(f)
    \/ Extract
    \/ SynthesizeIntent
    \/ Synthesize
    \/ GetExtract
    \/ GetTripPlan
    \/ Respond

Spec == Init /\ [][Next]_vars

(***************************************************************************)
(* The same calls, one after the other, with the clock of the process and  *)
(* a log of what each call was given and what it returned.                 *)
(***************************************************************************)
\* the documented example of the synthesizer (lines 1505-1519), departing
\* today
ExampleIntent ==
    [origin |-> <<"D","h","a","k","a">>, destination |-> <<"S","y","l","h","e","t">>, days |-> <<"3">>,
     budget |-> <<"2","0","0","0">>, people |-> <<"4">>, preferences |-> <<"h","i","l","l">>,
     tripType |-> <<"o","n","e","W","a","y">>, journeyDate |-> <<"t","o","d","a","y">>,
     travelClass |-> <<"e","c","o","n","o","m","y">>]

\* another trip: every field differs from the example
OtherIntent ==
    [origin |-> <<"S","y","l","h","e","t">>, destination |-> <<"K","h","u","l","n","a">>, days |-> <<"7">>,
     budget |-> <<"5","0","0","1">>, people |-> <<"2">>, preferences |-> <<>>,
     tripType |-> <<"r","o","u","n","d","T","r","i","p">>, journeyDate |-> <<"2","4","/","1","0","/","2","0","2","4">>,
     travelClass |-> <<"f","i","r","s","t">>]

\* the intents of the repeated calls
RepeatedIntents ==
    {ExampleIntent, OtherIntent,
     [ExampleIntent EXCEPT !.destination = <<"D","h","a","k","a">>],
     [ExampleIntent EXCEPT !.budget = <<"a","b","c">>]}

\* time passes
Tick ==
    /\ clock < MaxClock
    /\ clock' = clock + 1
    /\ UNCHANGED <<core, http, log, conc, parts, app>>

\* synthesize(intent), for one of the repeated intents
SynthesizeAgain ==
    /\ Idle
    /\ Len(log) < MaxCalls
    /\ \E args \in RepeatedIntents :
          /\ request' = [status |-> "called", args |-> args]
          /\ itinerary' = Call(args)
    /\ UNCHANGED <<text, clauses, intent, http, hist, conc, parts, app>>

\* extract(text), for the text as it is
ExtractAgain ==
    /\ Len(log) < MaxCalls
    /\ Extract

\* what the call being served was given and what it returned
Served ==
    IF request # None
    THEN [call |-> "synthesize", args |-> request.args,
          result |-> itinerary, at |-> clock]
    ELSE [call |-> "extract", args |-> text, result |-> intent, at |-> clock]

\* the response is returned and the call is written to the log
Record ==
    /\ ~Idle
    /\ log' = Append(log, Served)
    /\ text' = <<>>
    /\ clauses' = 0
    /\ intent' = None
    /\ request' = None
    /\ itinerary' = None
    /\ UNCHANGED <<http, clock, conc, parts, app>>

NextCalls ==
    \/ Tick
    \/ SynthesizeAgain
    \/ ExtractAgain
    \/ SynthesizeIntent
    \/ Record

SpecCalls == Init /\ [][NextCalls]_vars

(***************************************************************************)
(* The two functions run by several workers at once.  A call is cut at the *)
(* points where another worker may run; its locals are in its frame, and   *)
(* the dicts and lists it constructs are objects of the heap, which the    *)
(* caller holds by reference and may change.                               *)
(***************************************************************************)
\* the keys of an itinerary whose values are dicts or lists (lines 506, 520,
\* 539, 580, 605, 631)
SectionNames ==
    <<"budget", "checkpoints", "food", "accommodation", "weather", "traffic">>

\* the heap with the sections of a call shared: a section that an earlier
\* call constructed is used again
section_ref_shared(h, k) ==
    LET earlier == {i \in 1..Len(h) : h[i].kind = SectionNames[k]}
    IN  IF k >= 3 /\ earlier # {} THEN Min(earlier) ELSE Len(h) + k

\* the k-th dict or list literal of lines 501-645 is evaluated in the call:
\* a new object, after those of the heap h
section_ref(h, k) == Len(h) + k

\* the value of the k-th section of the itinerary dict d
section_value(d, k) ==
    CASE k = 1 -> d.budget
      [] k = 2 -> d.checkpoints
      [] k = 3 -> d.food
      [] k = 4 -> d.accommodation
      [] k = 5 -> d.weather
      [] k = 6 -> d.traffic

\* the itinerary dict d as objects, after the heap h: its six sections and
\* the dict itself, which refers to them
itinerary_objects(h, d) ==
    [k \in 1..Len(SectionNames) |->
        [kind |-> SectionNames[k], value |-> section_value(d, k)]]
    \o <<[kind |-> "itinerary",
          value |-> [d EXCEPT !.budget = section_ref(h, 1),
                              !.checkpoints = section_ref(h, 2),
                              !.food = section_ref(h, 3),
                              !.accommodation = section_ref(h, 4),
                              !.weather = section_ref(h, 5),
                              !.traffic = section_ref(h, 6)]]>>

\* the value a reference of the heap h stands for
Deref(h, ref) ==
    LET d == h[ref].value
    IN  IF h[ref].kind = "itinerary"
        THEN [d EXCEPT !.budget = h[d.budget].value,
                       !.checkpoints = h[d.checkpoints].value,
                       !.food = h[d.food].value,
                       !.accommodation = h[d.accommodation].value,
                       !.weather = h[d.weather].value,
                       !.traffic = h[d.traffic].value]
        ELSE d

\* the objects reachable from a reference of the heap h
Reachable(h, ref) ==
    LET d == h[ref].value
    IN  IF h[ref].kind = "itinerary"
        THEN {ref, d.budget, d.checkpoints, d.food, d.accommodation,
              d.weather, d.traffic}
        ELSE {ref}

\* the calls of the workers
WorkerIntents == {ExampleIntent, OtherIntent, [ExampleIntent EXCEPT !.budget = <<"a","b","c">>]}
WorkerTexts == {ExampleText}

\* the worker is inside a call: entered and not yet returned
Running(w) == frames[w].pc \in {"line454", "line460", "line494", "line501"}

\* worker w returns while the call of another worker is running
Overlaps(w) == \E v \in Workers \ {w} : Running(v)

\* worker w is called with generate_trip_itinerary(**args)
EnterSynthesize(w) ==
    /\ frames[w] = NoFrame
    /\ \E args \in WorkerIntents :
          frames' = [frames EXCEPT ![w] =
                        [pc |-> "line494", call |-> "synthesize",
                         args |-> args]]
    /\ UNCHANGED <<core, http, hist, heap, parts, app>>

\* line 494: total_budget = int(budget)
ParseBudget(w) ==
    /\ frames[w].pc = "line494"
    /\ LET total_budget == int(frames[w].args.budget)
       IN  frames' = [frames EXCEPT ![w] =
              IF total_budget.status # "ok"
              THEN [pc |-> "raised", call |-> "synthesize",
                    args |-> frames[w].args]
              ELSE [pc |-> "line501", call |-> "synthesize",
                    args |-> frames[w].args,
                    total_budget |-> total_budget.value]]
    /\ UNCHANGED <<core, http, hist, heap, parts, app>>

\* lines 495-645: the dict is constructed and returned
BuildItinerary(w) ==
    /\ frames[w].pc = "line501"
    /\ LET f == frames[w]
           d == itinerary_of(f.args.origin, f.args.destination, f.args.days,
                             f.args.budget, f.args.people, f.args.preferences,
                             f.args.tripType, f.args.journeyDate,
                             f.args.travelClass, f.total_budget)
           h == heap \o itinerary_objects(heap, d)
       IN  /\ heap' = h
           /\ frames' = [frames EXCEPT ![w] =
                 [pc |-> "returned", call |-> "synthesize", args |-> f.args,
                  overlap |-> Overlaps(w), ref |-> Len(h),
                  value |-> Deref(h, Len(h)), changed |-> FALSE]]
    /\ UNCHANGED <<core, http, hist, parts, app>>

\* worker w is called with extract_trip_details_from_text(text)
EnterExtract(w) ==
    /\ frames[w] = NoFrame
    /\ \E t \in WorkerTexts :
          frames' = [frames EXCEPT ![w] =
                        [pc |-> "line454", call |-> "extract", args |-> t]]
    /\ UNCHANGED <<core, http, hist, heap, parts, app>>

\* lines 454-458: the five searches
Search(w) ==
    /\ frames[w].pc = "line454"
    /\ frames' = [frames EXCEPT ![w] =
          [pc |-> "line460", call |-> "extract", args |-> frames[w].args,
           matches |-> matches_of(frames[w].args)]]
    /\ UNCHANGED <<core, http, hist, heap, parts, app>>

\* lines 460-476: the dict is constructed and returned
BuildIntent(w) ==
    /\ frames[w].pc = "line460"
    /\ LET f == frames[w]
           r == intent_of(f.matches, f.args)
           h == heap \o <<[kind |-> "intent", value |-> r.output]>>
       IN  IF r.status # "ok"
           THEN /\ frames' = [frames EXCEPT ![w] =
                      [pc |-> "raised", call |-> "extract", args |-> f.args]]
                /\ heap' = heap
           ELSE /\ heap' = h
                /\ frames' = [frames EXCEPT ![w] =
                      [pc |-> "returned", call |-> "extract",
                       args |-> f.args, overlap |-> Overlaps(w),
                       ref |-> Len(h), value |-> Deref(h, Len(h)),
                       changed |-> FALSE]]
    /\ UNCHANGED <<core, http, hist, parts, app>>

\* the caller changes a field of the dict it was returned: result["days"],
\* a field of both itinerary and intent
ChangeField(w) ==
    /\ frames[w].pc = "returned"
    /\ ~frames[w].changed
    /\ heap' = [heap EXCEPT ![frames[w].ref].value.days = <<"0">>]
    /\ frames' = [frames EXCEPT ![w].changed = TRUE]
    /\ UNCHANGED <<core, http, hist, parts, app>>

\* the caller empties a section of the itinerary it was returned:
\* itinerary["food"].clear()
ChangeSection(w) ==
    /\ frames[w].pc = "returned"
    /\ frames[w].call = "synthesize"
    /\ ~frames[w].changed
    /\ heap' = [heap EXCEPT ![heap[frames[w].ref].value.food].value = <<>>]
    /\ frames' = [frames EXCEPT ![w].changed = TRUE]
    /\ UNCHANGED <<core, http, hist, parts, app>>

NextWorkers ==
    \E w \in Workers :
        \/ EnterSynthesize(w)
        \/ ParseBudget(w)
        \/ BuildItinerary(w)
        \/ EnterExtract(w)
        \/ Search(w)
        \/ BuildIntent(w)
        \/ ChangeField(w)
        \/ ChangeSection(w)

SpecWorkers == Init /\ [][NextWorkers]_vars

(***************************************************************************)
(* The extractor on texts that are written clause by clause, with at most  *)
(* one clause for each field, in every order.                              *)
(***************************************************************************)
\* the clauses: the five of the example request, and a second origin whose
\* name ends in the letters 'to'
ClauseTexts ==
    <<<<"f","r","o","m"," ","D","h","a","k","a">>, <<"t","o"," ","S","y","l","h","e","t">>, <<"3"," ","f","r","i","e","n","d","s">>, <<"4"," ","d","a","y","s">>,
      <<"b","u","d","g","e","t"," ","5","k">>, <<"f","r","o","m"," ","T","o","r","o","n","t","o">>>>

\* the field of the intent record that each clause is for
ClauseField ==
    <<"origin", "destination", "people", "days", "budget", "origin">>

\* the text of the clauses cs, separated by single blanks
RECURSIVE Join(_)
Join(cs) ==
    IF cs = <<>> THEN <<>>
    ELSE IF Len(cs) = 1 THEN ClauseTexts[cs[1]]
    ELSE ClauseTexts[cs[1]] \o <<" ">> \o Join(Tail(cs))

\* the client writes one more clause, for a field that has none yet
Write(c) ==
    /\ Idle
    /\ \A i \in 1..Len(parts) : ClauseField[parts[i]] # ClauseField[c]
    /\ parts' = Append(parts, c)
    /\ text' = Join(parts')
    /\ clauses' = clauses + 1
    /\ UNCHANGED <<intent, request, itinerary, http, hist, conc, app>>

NextClauses ==
    \/ \E c \in 1..Len(ClauseTexts) : Write(c)
    \/ Extract

SpecClauses == Init /\ [][NextClauses]_vars

(***************************************************************************)
(* The application: the documentation schema, and a client that obtains a  *)
(* bearer token and joins a group.                                         *)
(***************************************************************************)
Held(source, t) == [status |-> "held", source |-> source, value |-> t]

\* a call of app.openapi()
CustomOpenapi ==
    /\ LET r == custom_openapi(openapi_schema)
       IN  /\ openapi_schema' = r.schema
           /\ generated' = generated + r.generated
           /\ reply' = [status |-> "replied", op |-> "custom_openapi",
                       generated |-> r.generated, result |-> r.schema]
    /\ UNCHANGED <<core, http, hist, conc, parts, bearer>>

\* POST /v1/auth/login; the client keeps the access token of the response
Login(user_data) ==
    /\ LET r == login(user_data)
       IN  /\ reply' = [status |-> "replied", op |-> "login", result |-> r]
           /\ bearer' = Held("login", r.output.access_token)
    /\ UNCHANGED <<core, http, hist, conc, parts, openapi_schema, generated>>

\* a call of create_access_token, whose token the client keeps
Issue(data, expires_delta) ==
    /\ bearer' = Held("create_access_token",
                      create_access_token(data, expires_delta, clock))
    /\ UNCHANGED <<core, http, hist, conc, parts, openapi_schema, generated, reply>>

\* the client takes a token of its own making
Forge(t) ==
    /\ bearer' = Held("client", t)
    /\ UNCHANGED <<core, http, hist, conc, parts, openapi_schema, generated, reply>>

\* POST /v1/groups/{group_id}/join with the token the client holds
JoinGroup(group_id) ==
    /\ reply' = [status |-> "replied", op |-> "join_group", group_id |-> group_id,
                 authorization |-> bearer, at |-> clock,
                 current_user |-> current_user_of(bearer, clock),
                 result |-> post_join(group_id, bearer, clock)]
    /\ UNCHANGED <<core, http, hist, conc, parts, openapi_schema, generated, bearer>>

NextApp ==
    \/ CustomOpenapi
    \/ \E u \in UserLogins : Login(u)
    \/ \E d \in TokenData, l \in Lifetimes : Issue(d, l)
    \/ \E t \in Tokens : Forge(t)
    \/ \E g \in GroupIds : JoinGroup(g)
    \/ Tick

SpecApp == Init /\ [][NextApp]_vars


(***************************************************************************)
(* Vocabulary of the properties.                                           *)
(***************************************************************************)
\* the integer a decimal numeral with an optional minus sign writes
Amount(s) == IF s[1] = "-" THEN 0 - DigitsValue(Tail(s)) ELSE DigitsValue(s)

\* s is a non-empty sequence of decimal digits
IsNumeral(s) == s # <<>> /\ \A i \in 1..Len(s) : s[i] \in DigitChars

\* the synthesizer returned an itinerary
Returned == request # None /\ itinerary.status = "ok"

\* the budget of the call, as a number
TotalBudget == int(request.args.budget).value

\* the budget breakdown of the itinerary returned
Breakdown == itinerary.output.budget.breakdown

\* the extractor was run on the text
Extracted == intent # None

\* the keyword kw stands at position i of t, in any letter case
KeywordAt(t, i, kw) ==
    /\ i + Len(kw) - 1 <= Len(t)
    /\ \A k \in 1..Len(kw) : lower_char(t[i + k - 1]) = kw[k]

\* the keyword kw occurs somewhere in t
Occurs(t, kw) == \E i \in 1..Len(t) : KeywordAt(t, i, kw)

\* the positions of "kw <word>": the keyword, whitespace, a word character
WordMatches(t, kw) ==
    {i \in 1..Len(t) :
        /\ KeywordAt(t, i, kw)
        /\ \E j \in (i + Len(kw) + 1)..Len(t) :
              /\ t[j] \in WordChars
              /\ \A m \in (i + Len(kw))..(j - 1) : t[m] \in SpaceChars}

\* the positions of the keyword in "<integer> kw": a digit, whitespace, the
\* keyword
NumberMatches(t, kw) ==
    {k \in 1..Len(t) :
        /\ KeywordAt(t, k, kw)
        /\ \E j \in 1..(k - 2) :
              /\ t[j] \in DigitChars
              /\ \A m \in (j + 1)..(k - 1) : t[m] \in SpaceChars}

\* the positions of "budget <integer>k"
BudgetMatches(t) ==
    {i \in 1..Len(t) :
        /\ KeywordAt(t, i, <<"b","u","d","g","e","t">>)
        /\ \E j \in (i + 7)..Len(t), k \in (i + 8)..Len(t) :
              /\ j < k
              /\ \A m \in (i + 6)..(j - 1) : t[m] \in SpaceChars
              /\ \A m \in j..(k - 1) : t[m] \in DigitChars
              /\ lower_char(t[k]) = "k"}

\* the default of every extracted field
Defaults ==
    [origin |-> <<>>, destination |-> <<>>, days |-> <<>>, budget |-> <<>>,
     people |-> <<"1">>]

IntentFields ==
    {"origin", "destination", "days", "budget", "people", "preferences",
     "tripType", "journeyDate", "travelClass"}

\* the first position at which the keyword kw occurs in t
FirstOccurrence(t, kw) == Min({i \in 1..Len(t) : KeywordAt(t, i, kw)})

\* the last position at or before i whose character is not in class (or 0)
RECURSIVE RunStart(_, _, _)
RunStart(t, i, class) ==
    IF i >= 1 /\ t[i] \in class THEN RunStart(t, i - 1, class) ELSE i

\* the word of "kw <word>" at position i
WordAfter(t, i, kw) ==
    LET a == RunEnd(t, i + Len(kw), SpaceChars)
    IN  SubSeq(t, a, RunEnd(t, a, WordChars) - 1)

\* the integer of "<integer> kw", the keyword standing at position k
NumberBefore(t, k) ==
    LET b == RunStart(t, k - 1, SpaceChars)
    IN  SubSeq(t, RunStart(t, b, DigitChars) + 1, b)

\* the integer of "budget <integer>k" at position i
BudgetNumber(t, i) ==
    LET a == RunEnd(t, i + 6, SpaceChars)
    IN  SubSeq(t, a, RunEnd(t, a, DigitChars) - 1)

\* no word character stands right before position i, resp. right after j
BoundaryBefore(t, i) == i = 1 \/ t[i - 1] \notin WordChars
BoundaryAfter(t, j) == j = Len(t) \/ t[j + 1] \notin WordChars

\* the clauses "kw <word>" of t whose keyword is a word of its own
WordClauses(t, kw) == {i \in WordMatches(t, kw) : BoundaryBefore(t, i)}

\* the clauses "<integer> kw" of t whose integer and keyword are words of
\* their own
NumberClauses(t, kw) ==
    {k \in NumberMatches(t, kw) :
        /\ BoundaryAfter(t, k + Len(kw) - 1)
        /\ BoundaryBefore(t, k - Len(NumberBefore(t, k))
                                 - (k - 1 - RunStart(t, k - 1, SpaceChars)))}

\* the clauses "budget <integer>k" of t that are delimited likewise
BudgetClauses(t) ==
    {i \in BudgetMatches(t) :
        /\ BoundaryBefore(t, i)
        /\ BoundaryAfter(t, RunEnd(t, RunEnd(t, i + 6, SpaceChars),
                                    DigitChars))}

\* t contains a clause of each of the five kinds
HasClauses(t) ==
    /\ WordClauses(t, <<"f","r","o","m">>) # {}
    /\ WordClauses(t, <<"t","o">>) # {}
    /\ NumberClauses(t, <<"f","r","i","e","n","d","s">>) # {}
    /\ NumberClauses(t, <<"d","a","y","s">>) # {}
    /\ BudgetClauses(t) # {}

\* t contains exactly one clause of each of the five kinds
HasFiveClauses(t) ==
    /\ Cardinality(WordClauses(t, <<"f","r","o","m">>)) = 1
    /\ Cardinality(WordClauses(t, <<"t","o">>)) = 1
    /\ Cardinality(NumberClauses(t, <<"f","r","i","e","n","d","s">>)) = 1
    /\ Cardinality(NumberClauses(t, <<"d","a","y","s">>)) = 1
    /\ Cardinality(BudgetClauses(t)) = 1

\* origin=O, destination=D, duration=M, partySize=N+1 and budget=K*1000 for
\* the (first) clauses 'from O', 'to D', 'N friends', 'M days' and
\* 'budget Kk' of t
ClauseFields(t) ==
    [origin |-> WordAfter(t, Min(WordClauses(t, <<"f","r","o","m">>)), <<"f","r","o","m">>),
     destination |-> WordAfter(t, Min(WordClauses(t, <<"t","o">>)), <<"t","o">>),
     days |-> NumberBefore(t, Min(NumberClauses(t, <<"d","a","y","s">>))),
     people |->
         str(DigitsValue(NumberBefore(t, Min(NumberClauses(t, <<"f","r","i","e","n","d","s">>))))
                 + 1),
     budget |-> str(DigitsValue(BudgetNumber(t, Min(BudgetClauses(t))))
                        * 1000)]

\* no keyword occurs in t, in any letter case, before the clause it belongs
\* to
KeywordsFirstInClauses(t) ==
    /\ FirstOccurrence(t, <<"f","r","o","m">>) = Min(WordClauses(t, <<"f","r","o","m">>))
    /\ FirstOccurrence(t, <<"t","o">>) = Min(WordClauses(t, <<"t","o">>))
    /\ FirstOccurrence(t, <<"f","r","i","e","n","d","s">>) = Min(NumberClauses(t, <<"f","r","i","e","n","d","s">>))
    /\ FirstOccurrence(t, <<"d","a","y","s">>) = Min(NumberClauses(t, <<"d","a","y","s">>))
    /\ FirstOccurrence(t, <<"b","u","d","g","e","t">>) = Min(BudgetClauses(t))

\* str.upper() and str.swapcase()
UpperOf == [c \in LowerChars |-> UPPER[CHOOSE i \in 1..26 : LOWER[i] = c]]
upper_char(c) == IF c \in LowerChars THEN UpperOf[c] ELSE c
upper(s) == [i \in 1..Len(s) |-> upper_char(s[i])]
swapcase(s) ==
    [i \in 1..Len(s) |->
        IF s[i] \in LowerChars THEN upper_char(s[i]) ELSE lower_char(s[i])]

\* s writes a non-negative number: optional surrounding whitespace, an
\* optional sign, digits (underscores between them allowed) with at most one
\* decimal point, and a minus sign only before zero
NonNegativeNumber(s) ==
    LET b == Strip(s)
        signed == b # <<>> /\ b[1] \in {"+", "-"}
        d == IF signed THEN Tail(b) ELSE b
    IN  /\ d # <<>>
        /\ \A i \in 1..Len(d) : d[i] \in DigitChars \cup {"_", "."}
        /\ \E i \in 1..Len(d) : d[i] \in DigitChars
        /\ Cardinality({i \in 1..Len(d) : d[i] = "."}) <= 1
        /\ d[1] # "_" /\ d[Len(d)] # "_"
        /\ (signed /\ b[1] = "-") =>
              \A i \in 1..Len(d) : d[i] \in {"0", "_", "."}

(***************************************************************************)
(* Properties.                                                             *)
(***************************************************************************)
\* C1: for every budget B >= 0 the synthesizer accepts, the transportation,
\* food, accommodation and miscellaneous amounts of the breakdown sum to B
\* exactly.
C1_BreakdownSumsToTotal ==
    (Returned /\ TotalBudget >= 0) =>
        Amount(Breakdown.transportation) + Amount(Breakdown.food)
            + Amount(Breakdown.accommodation)
            + Amount(Breakdown.miscellaneous) = TotalBudget

\* C1 witness: budget 7 is split 2 + 2 + 1 with the rounding remainder in
\* miscellaneous
C1_Witness ==
    /\ Returned
    /\ request.args.budget = <<"7">>
    /\ Breakdown = [transportation |-> <<"2">>, food |-> <<"2">>,
                    accommodation |-> <<"1">>, miscellaneous |-> <<"2">>]

C4_ClausesYieldFields ==
    (Extracted /\ HasFiveClauses(text)) =>
        /\ intent.status = "ok"
        /\ \A f \in DOMAIN ClauseFields(text) :
              intent.output[f] = ClauseFields(text)[f]

\* C4 amended: a text with the clauses 'from O', 'to D', 'N friends',
\* 'M days' and 'budget Kk', in which none of the keywords from, to, friends,
\* days and budget occurs (in any letter case, also inside a longer word)
\* before its clause, yields origin=O, destination=D, duration=M,
\* partySize=N+1 and budget=K*1000; the example text yields Dhaka, Sylhet, 4,
\* 4 and 5000.
C4_FirstClausesYieldFields ==
    /\ (Extracted /\ HasClauses(text) /\ KeywordsFirstInClauses(text)) =>
          /\ intent.status = "ok"
          /\ \A f \in DOMAIN ClauseFields(text) :
                intent.output[f] = ClauseFields(text)[f]
    /\ (Extracted /\ text = ExampleText) =>
          /\ intent.status = "ok"
          /\ intent.output.origin = <<"D","h","a","k","a">>
          /\ intent.output.destination = <<"S","y","l","h","e","t">>
          /\ intent.output.days = <<"4">>
          /\ intent.output.people = <<"4">>
          /\ intent.output.budget = <<"5","0","0","0">>

\* C4 witness: the example text was extracted
C4_Witness ==
    /\ Extracted
    /\ text = ExampleText
    /\ HasFiveClauses(text) /\ KeywordsFirstInClauses(text)
    /\ intent.output.origin = <<"D","h","a","k","a">>
    /\ intent.output.destination = <<"S","y","l","h","e","t">>
    /\ intent.output.budget = <<"5","0","0","0">>

\* C5: the party size of every intent record is at least 1: the integer of
\* the leftmost '<integer> friends' plus one when the pattern matches, and 1
\* when it does not.
C5_PartySizeAtLeastOne ==
    Extracted =>
        /\ intent.status = "ok"
        /\ IsNumeral(intent.output.people)
        /\ Amount(intent.output.people) >= 1
        /\ NumberMatches(text, <<"f","r","i","e","n","d","s">>) = {} =>
              intent.output.people = <<"1">>
        /\ NumberMatches(text, <<"f","r","i","e","n","d","s">>) # {} =>
              Amount(intent.output.people) =
                  DigitsValue(NumberBefore(text,
                      Min(NumberMatches(text, <<"f","r","i","e","n","d","s">>)))) + 1

\* C5 witness: '0 Friends' is matched and gives party size 1
C5_Witness ==
    /\ Extracted
    /\ text = ReorderedText
    /\ NumberBefore(text, Min(NumberMatches(text, <<"f","r","i","e","n","d","s">>))) = <<"0">>
    /\ intent.output.people = <<"1">>

\* C6: when 'budget <integer>k' matches, the budget is the integer of the
\* leftmost match times 1000; every extracted budget is a non-negative
\* multiple of 1000.
C6_BudgetInThousands ==
    Extracted =>
        /\ intent.status = "ok"
        /\ BudgetMatches(text) # {} =>
              /\ IsNumeral(intent.output.budget)
              /\ Amount(intent.output.budget) =
                    DigitsValue(BudgetNumber(text, Min(BudgetMatches(text))))
                        * 1000
        /\ intent.output.budget # <<>> =>
              /\ IsNumeral(intent.output.budget)
              /\ Amount(intent.output.budget) % 1000 = 0

\* C6 witness: 'budget 20k' gives 20000
C6_Witness ==
    /\ Extracted
    /\ BudgetMatches(text) # {}
    /\ BudgetNumber(text, Min(BudgetMatches(text))) = <<"2","0">>
    /\ intent.output.budget = <<"2","0","0","0","0">>

\* C7: when a pattern matches at several places, the field is taken from
\* the leftmost match and every later match is ignored.
C7_LeftmostMatchUsed ==
    Extracted =>
        /\ intent.status = "ok"
        /\ WordMatches(text, <<"f","r","o","m">>) # {} =>
              intent.output.origin =
                  WordAfter(text, Min(WordMatches(text, <<"f","r","o","m">>)), <<"f","r","o","m">>)
        /\ WordMatches(text, <<"t","o">>) # {} =>
              intent.output.destination =
                  WordAfter(text, Min(WordMatches(text, <<"t","o">>)), <<"t","o">>)
        /\ NumberMatches(text, <<"d","a","y","s">>) # {} =>
              intent.output.days =
                  NumberBefore(text, Min(NumberMatches(text, <<"d","a","y","s">>)))
        /\ NumberMatches(text, <<"f","r","i","e","n","d","s">>) # {} =>
              intent.output.people =
                  str(DigitsValue(NumberBefore(text,
                          Min(NumberMatches(text, <<"f","r","i","e","n","d","s">>)))) + 1)
        /\ BudgetMatches(text) # {} =>
              intent.output.budget =
                  str(DigitsValue(BudgetNumber(text,
                          Min(BudgetMatches(text)))) * 1000)

\* C7 witness: 'from Dhaka ... from Khulna' and '4 days ... 2 days' give
\* origin Dhaka and 4 days
C7_Witness ==
    /\ Extracted
    /\ text = ExampleText \o <<" ","f","r","o","m"," ","K","h","u","l","n","a"," ","f","o","r"," ","2"," ","d","a","y","s">>
    /\ Cardinality(WordMatches(text, <<"f","r","o","m">>)) = 2
    /\ Cardinality(NumberMatches(text, <<"d","a","y","s">>)) = 2
    /\ intent.output.origin = <<"D","h","a","k","a">>
    /\ intent.output.days = <<"4">>

\* the intent record of text t is that of the state, but for the letter
\* case of the two captured place words, which is as written in t
SameButCase(t, origin, destination) ==
    extract_trip_details_from_text(t) =
        [intent EXCEPT !.output.origin = origin,
                       !.output.destination = destination]

\* C8: keyword matching ignores letter case: writing the text in lower case,
\* in upper case or with the case of every letter swapped changes no
\* extracted field, the captured place words being returned with the case
\* written in the text.
C8_KeywordCaseIgnored ==
    (Extracted /\ intent.status = "ok") =>
        /\ SameButCase(lower(text), lower(intent.output.origin),
                       lower(intent.output.destination))
        /\ SameButCase(upper(text), upper(intent.output.origin),
                       upper(intent.output.destination))
        /\ SameButCase(swapcase(text), swapcase(intent.output.origin),
                       swapcase(intent.output.destination))

\* C8 witness: the keywords Budget, K, DAYS, To, From and Friends are matched
C8_Witness ==
    /\ Extracted
    /\ text = ReorderedText
    /\ intent.output.origin = <<"S","y","l","h","e","t">>
    /\ intent.output.destination = <<"K","h","u","l","n","a">>
    /\ intent.output.days = <<"2">>
    /\ intent.output.budget = <<"1","2","0","0","0">>
    /\ intent.output.people = <<"1">>

\* C9 as stated: for every text the intent record has preferences empty,
\* trip type "one-way", departure "today" and travel class "economy".
C9_FixedFieldsOneWay ==
    Extracted =>
        /\ intent.status = "ok"
        /\ intent.output.preferences = <<>>
        /\ intent.output.tripType = <<"o","n","e","-","w","a","y">>
        /\ intent.output.journeyDate = <<"t","o","d","a","y">>
        /\ intent.output.travelClass = <<"e","c","o","n","o","m","y">>

\* C9 amended: for every text the intent record has preferences empty, trip
\* type "oneWay", departure "today" and travel class "economy"; none of the
\* four depends on the text.
C9_FixedFields ==
    Extracted =>
        /\ intent.status = "ok"
        /\ intent.output.preferences = <<>>
        /\ intent.output.tripType = <<"o","n","e","W","a","y">>
        /\ intent.output.journeyDate = <<"t","o","d","a","y">>
        /\ intent.output.travelClass = <<"e","c","o","n","o","m","y">>

\* C9 witness: a text with matches of all five patterns still has the four
\* fixed fields
C9_Witness ==
    /\ Extracted
    /\ intent.status = "ok"
    /\ intent.output.origin # <<>> /\ intent.output.destination # <<>>
    /\ intent.output.days # <<>> /\ intent.output.budget # <<>>
    /\ intent.output.people # <<"1">>
    /\ intent.output.preferences = <<>>
    /\ intent.output.tripType = <<"o","n","e","W","a","y">>

\* C10: the synthesizer fails, and returns no itinerary, whenever the budget
\* is not a non-negative number (empty, non-numeric, negative).
C10_InvalidBudgetRejected ==
    (request # None /\ ~NonNegativeNumber(request.args.budget)) =>
        itinerary = ValueError

\* the keys of an itinerary (lines 501-645)
ItineraryKeys ==
    {"trip_name", "origin", "destination", "days", "budget", "people",
     "preferences", "tripType", "journeyDate", "travelClass", "checkpoints",
     "food", "accommodation", "weather", "traffic"}

\* the call returned an itinerary with every section
Complete ==
    /\ itinerary.status = "ok"
    /\ DOMAIN itinerary.output = ItineraryKeys

\* C11: for every budget that is a non-negative number, a decimal such as
\* "2000.5" included, and any values of the other eight arguments, the
\* synthesizer returns a complete itinerary.
C11_NonNegativeBudgetAccepted ==
    (request # None /\ NonNegativeNumber(request.args.budget)) => Complete

\* C12: the intent record of the extractor, passed on as it is, yields an
\* itinerary and never an error, also when the text has no budget clause.
C12_ExtractedIntentAccepted ==
    (Extracted /\ request # None) => itinerary.status = "ok"

\* the checkpoints of the itinerary returned
Checkpoints == itinerary.output.checkpoints

\* the latitude/longitude pair of an endpoint of a checkpoint
Coordinates(point) == <<point.latitude, point.longitude>>

\* the place names the coordinate conditions of lines 524-530 compare with
PlaceTable == {<<"d","h","a","k","a">>, <<"s","y","l","h","e","t">>}

\* the place name is one the coordinate lookup does not know
Unrecognized(place) == lower(place) \notin PlaceTable

\* C14: every place name that is not in the lookup table, the empty name
\* included, receives the one fixed default coordinate pair, whether it is
\* the origin or the destination, and no error is raised for it.
C14_UnknownPlaceGetsDefault ==
    (/\ request # None
     /\ int(request.args.budget).status = "ok"
     /\ Unrecognized(request.args.origin)
     /\ Unrecognized(request.args.destination)) =>
        /\ itinerary.status = "ok"
        /\ Coordinates(Checkpoints[1].origin)
              = Coordinates(Checkpoints[1].destination)

\* C15: two place names that are equal after lower-casing receive the same
\* latitude/longitude pair in whichever endpoint they appear.
C15_SamePlaceSameCoordinates ==
    (Returned /\ lower(request.args.origin) = lower(request.args.destination))
        => Coordinates(Checkpoints[1].origin)
              = Coordinates(Checkpoints[1].destination)

\* C16: a returned itinerary has exactly one checkpoint; the location of its
\* origin is the origin of the intent and the location of its destination is
\* the destination of the intent.
C16_SingleCheckpoint ==
    Returned =>
        /\ Len(Checkpoints) = 1
        /\ Checkpoints[1].origin.location = request.args.origin
        /\ Checkpoints[1].destination.location = request.args.destination

\* C16 witness: an itinerary for two different places was returned
C16_Witness ==
    /\ Returned
    /\ request.args.origin = <<"S","y","l","h","e","t">>
    /\ request.args.destination = <<"D","h","a","k","a">>
    /\ Checkpoints[1].origin.location = <<"S","y","l","h","e","t">>

\* the title of the itinerary returned
Title == itinerary.output.trip_name

\* the title without a preference clause
PlainTitle ==
    request.args.origin \o <<" ","t","o"," ">> \o request.args.destination \o <<" ">>
        \o request.args.days \o <<" ","d","a","y","s"," ","t","r","i","p"," ","w","i","t","h"," ">> \o request.args.people
        \o <<" ","p","e","o","p","l","e">>

\* C18: the title is "<origin> to <destination> <days> days trip with
\* <people> people", followed by " to enjoy the <preferences>" exactly when
\* the preferences are not empty.
C18_TitleTemplate ==
    Returned =>
        /\ request.args.preferences = <<>> => Title = PlainTitle
        /\ request.args.preferences # <<>> =>
              Title = PlainTitle \o <<" ","t","o"," ","e","n","j","o","y"," ","t","h","e"," ">>
                          \o request.args.preferences

\* C18 witness: the title of the documented example, with its preference
\* clause
C18_Witness ==
    /\ Returned
    /\ request.args.preferences = <<"h","i","l","l">>
    /\ Title = <<"D","h","a","k","a"," ","t","o"," ","S","y","l","h","e","t"," ","3"," ","d","a","y","s"," ","t","r","i","p"," ","w","i","t","h"," ","4"," ","p","e","o","p","l","e"," ","t","o"," ","e","n","j","o","y"," ","t","h","e"," ","h","i","l","l">>

\* the value of a query parameter as the string of an intent record, the
\* empty string when the parameter is absent
Field(p) == IF p = Absent THEN <<>> ELSE p.value
Numeral(p) == IF p = Absent THEN <<>> ELSE str(p.value)

\* the intent given by the query parameters of GET /v1/tripPlan; the three
\* fields the route has no parameter for are the extractor's
IntentOfQuery(q) ==
    [origin |-> Field(q.origin), destination |-> Field(q.destination),
     days |-> Numeral(q.days), budget |-> Numeral(q.budget),
     people |-> Numeral(q.people), preferences |-> <<>>,
     tripType |-> <<"o","n","e","W","a","y">>, journeyDate |-> Field(q.start_date),
     travelClass |-> <<"e","c","o","n","o","m","y">>]

\* a route handler has answered with a body
Answered(route) ==
    /\ query # None
    /\ query.route = route
    /\ response.status = "200"

\* C20: for every text the output of the handler of GET /v1/tripPlan/extract
\* is the intent record of extract(text), and the output of the handler of
\* GET /v1/tripPlan is the itinerary synthesize returns for the intent given
\* by its query parameters.
C20_HandlersReturnFunctionResults ==
    /\ Answered("extract") =>
          LET r == extract_trip_details_from_text(query.text)
          IN  r.status = "ok" /\ response.body.output = r.output
    /\ Answered("tripPlan") =>
          LET r == Call(IntentOfQuery(query.params))
          IN  r.status = "ok" /\ response.body.output = r.output

\* the calls of the synthesizer served so far, the one being served included
SynthesizeCalls ==
    {log[i] : i \in {k \in 1..Len(log) : log[k].call = "synthesize"}}
        \cup (IF request # None THEN {Served} ELSE {})

Sections(r) ==
    [food |-> r.output.food, accommodation |-> r.output.accommodation,
     weather |-> r.output.weather, traffic |-> r.output.traffic]

\* C17: for any two intents the synthesizer accepts, whatever fields they
\* differ in, the meal, lodging, weather and traffic sections of the two
\* itineraries are identical.
C17_SectionsIndependentOfRequest ==
    \A a, b \in SynthesizeCalls :
        (a.result.status = "ok" /\ b.result.status = "ok")
            => Sections(a.result) = Sections(b.result)

\* C17 witness: two itineraries were returned for intents that differ in
\* every field, destination, budget, preferences and days among them
C17_Witness ==
    /\ Len(log) >= 1
    /\ log[1].call = "synthesize" /\ log[1].args = ExampleIntent
    /\ log[1].result.status = "ok"
    /\ request # None /\ request.args = OtherIntent
    /\ itinerary.status = "ok"
    /\ itinerary.output.budget # log[1].result.output.budget

\* what the invocation of a frame returns when it is run alone
Alone(f) ==
    IF f.call = "synthesize" THEN Call(f.args)
    ELSE extract_trip_details_from_text(f.args)

\* C19: under every interleaving of the workers each invocation raises or
\* returns what it does when run alone; the dict a caller has not changed
\* keeps that value whatever the other callers change in theirs; and no
\* object of a returned dict is part of the dict of another invocation.
C19_InvocationsIndependent ==
    \A w \in Workers :
        LET f == frames[w]
        IN  /\ f.pc = "raised" => Alone(f) = ValueError
            /\ f.pc = "returned" =>
                  /\ Alone(f).status = "ok"
                  /\ f.value = Alone(f).output
                  /\ ~f.changed => Deref(heap, f.ref) = Alone(f).output
                  /\ \A v \in Workers \ {w} :
                        frames[v].pc = "returned" =>
                            Reachable(heap, f.ref)
                                \cap Reachable(heap, frames[v].ref) = {}

\* C19 witness: worker 1 returned from the synthesizer while the call of
\* worker 2 was running and emptied the meal section of its itinerary;
\* worker 2 returned after it and holds the itinerary of its own call
C19_Witness ==
    /\ frames[1].pc = "returned" /\ frames[2].pc = "returned"
    /\ frames[1].call = "synthesize" /\ frames[2].call = "synthesize"
    /\ frames[1].overlap
    /\ frames[1].ref < frames[2].ref
    /\ frames[1].changed
    /\ Deref(heap, frames[1].ref).food = <<>>
    /\ ~frames[2].changed
    /\ Deref(heap, frames[2].ref).food = food_catalog

\* the arguments of the documented example of GET /v1/tripPlan
DocumentedIntent == [ExampleIntent EXCEPT !.journeyDate = <<"2","4","/","1","0","/","2","0","2","4">>]

\* C21: generate_trip_itinerary called with the arguments of the documented
\* example returns an output with every key of the documented example
\* response, spotSuggestions included, each with the documented value.
C21_DocumentedExampleComputed ==
    (request # None /\ request.args = DocumentedIntent) =>
        /\ itinerary.status = "ok"
        /\ DOMAIN itinerary.output = DOMAIN documented_example
        /\ itinerary.output = documented_example

\* C22: for every accepted call the itinerary's origin, destination, days,
\* people, preferences, tripType, journeyDate and travelClass are the
\* arguments, and budget.total is the budget argument as it was given.
C22_IntentCopiedUnchanged ==
    Returned =>
        /\ \A f \in IntentFields \ {"budget"} :
              itinerary.output[f] = request.args[f]
        /\ itinerary.output.budget.total = request.args.budget

\* C22 witness: a budget that is not written as str(int(budget)) was echoed
\* as given
C22_Witness ==
    /\ Returned
    /\ request.args.budget = <<" ","4","2"," ">>
    /\ itinerary.output.budget.total = <<" ","4","2"," ">>
    /\ itinerary.output.travelClass = <<"f","i","r","s","t">>

\* the text has no digit
NoDigits(t) == \A i \in 1..Len(t) : t[i] \notin DigitChars

\* C23: only digit sequences are numbers for the extractor: the duration and
\* the budget of an intent record are empty or digit sequences taken from the
\* text, and a text whose duration, party size and budget are written as
\* number words leaves duration empty, party size 1 and budget empty.
C23_OnlyDigitsAreNumbers ==
    Extracted =>
        /\ intent.status = "ok"
        /\ \A i \in 1..Len(intent.output.days) :
              intent.output.days[i] \in DigitChars
        /\ NoDigits(text) =>
              /\ intent.output.days = <<>>
              /\ intent.output.people = <<"1">>
              /\ intent.output.budget = <<>>

\* C23 witness: the text with the three number words was extracted
C23_Witness ==
    /\ Extracted
    /\ text = <<"f","o","u","r"," ","d","a","y","s"," ","t","h","r","e","e"," ","f","r","i","e","n","d","s"," ","b","u","d","g","e","t"," ","f","i","v","e"," ","k">>
    /\ intent.output.days = <<>>
    /\ intent.output.people = <<"1">>
    /\ intent.output.budget = <<>>

\* the four amounts of the breakdown returned, as numbers
Amounts ==
    [f \in {"transportation", "food", "accommodation", "miscellaneous"} |->
        Amount(Breakdown[f])]

LeftmostWordMatch(t, kw) == Min(WordMatches(t, kw))

\* that place is inside a longer word: a word character stands before it
InsideWord(t, kw) ==
    /\ WordMatches(t, kw) # {}
    /\ ~BoundaryBefore(t, LeftmostWordMatch(t, kw))

\* C26: the patterns of 'to' and 'from' are not anchored at word boundaries:
\* when the leftmost occurrence of the letters 'to' followed by whitespace and
\* a word is the end of a longer word, the destination is the word after it
\* ('photo shoot ...' yields 'shoot', '... Toronto to Sylhet' yields 'to'),
\* and likewise the origin for 'from'.
C26_KeywordsNotAnchored ==
    Extracted =>
        /\ intent.status = "ok"
        /\ InsideWord(text, <<"t","o">>) =>
              intent.output.destination
                  = WordAfter(text, LeftmostWordMatch(text, <<"t","o">>), <<"t","o">>)
        /\ InsideWord(text, <<"f","r","o","m">>) =>
              intent.output.origin
                  = WordAfter(text, LeftmostWordMatch(text, <<"f","r","o","m">>),
                              <<"f","r","o","m">>)

\* C26 witness: in 'FROM Toronto to Sylhet' the destination is 'to', the
\* word after the end of 'Toronto'
C26_Witness ==
    /\ Extracted
    /\ text = <<"F","R","O","M"," ","T","o","r","o","n","t","o"," ","t","o"," ","S","y","l","h","e","t">>
    /\ InsideWord(text, <<"t","o">>)
    /\ ~InsideWord(text, <<"f","r","o","m">>)
    /\ intent.output.destination = <<"t","o">>
    /\ intent.output.origin = <<"T","o","r","o","n","t","o">>

\* C27: a budget clause that is not 'budget', whitespace, digits, 'k' is not
\* recognised: a text without such a clause, 'budget 5000' and 'budget: 5k'
\* among them, leaves the budget empty, and no error is raised.
C27_MalformedBudgetIgnored ==
    Extracted =>
        /\ intent.status = "ok"
        /\ BudgetMatches(text) = {} => intent.output.budget = <<>>
        /\ text \in {<<"b","u","d","g","e","t"," ","5","0","0","0">>, <<"b","u","d","g","e","t",":"," ","5","k">>} =>
              intent.output.budget = <<>>

\* C27 witness: 'budget 5000' and 'budget: 5k' were extracted together, and
\* the budget is empty
C27_Witness ==
    /\ Extracted
    /\ text = <<"b","u","d","g","e","t"," ","5","0","0","0"," ","b","u","d","g","e","t",":"," ","5","k">>
    /\ intent.status = "ok"
    /\ intent.output.budget = <<>>

\* the clauses cs in the order of ClauseTexts
RECURSIVE Sorted(_)
Sorted(cs) ==
    IF cs = <<>> THEN <<>>
    ELSE LET m == Min(Range(cs))
         IN  <<m>> \o Sorted(SelectSeq(cs, LAMBDA c : c # m))

\* the clauses cs without the i-th
Removed(cs, i) == SubSeq(cs, 1, i - 1) \o SubSeq(cs, i + 1, Len(cs))

\* the intent record of the text of the clauses cs
IntentOf(cs) == extract_trip_details_from_text(Join(cs)).output

\* every order of the clauses of the text yields the intent record of the
\* text, and the text without one clause differs from it in no field but
\* that of the clause
ClausesIndependent ==
    /\ intent.status = "ok"
    /\ intent.output = IntentOf(Sorted(parts))
    /\ \A i \in 1..Len(parts) :
          \A f \in IntentFields \ {ClauseField[parts[i]]} :
              IntentOf(Removed(parts, i))[f] = intent.output[f]

\* each of the five patterns matches in t only where a clause of its kind
\* starts: no 'from' or 'to' that ends a longer word is followed by
\* whitespace and a word
OnlyClausesMatch(t) ==
    /\ WordMatches(t, <<"f","r","o","m">>) = WordClauses(t, <<"f","r","o","m">>)
    /\ WordMatches(t, <<"t","o">>) = WordClauses(t, <<"t","o">>)
    /\ NumberMatches(t, <<"f","r","i","e","n","d","s">>) = NumberClauses(t, <<"f","r","i","e","n","d","s">>)
    /\ NumberMatches(t, <<"d","a","y","s">>) = NumberClauses(t, <<"d","a","y","s">>)
    /\ BudgetMatches(t) = BudgetClauses(t)

Documents422(schema) ==
    {<<p, m>> \in {<<r.path, r.method>> : r \in Range(Routes)} :
        /\ p \in DOMAIN schema.paths
        /\ m \in DOMAIN schema.paths[p]
        /\ "422" \in schema.paths[p][m].responses}

\* C28: after any sequence of custom_openapi calls, the schema returned and
\* stored has no "422" response in any path and method; it was generated
\* once, by the first call, and every later call returns the stored schema.
C28_SchemaCachedWithout422 ==
    /\ generated <= 1
    /\ (generated = 0) = (openapi_schema = None)
    /\ openapi_schema # None => Documents422(openapi_schema) = {}
    /\ reply.status # "none" /\ reply.op = "custom_openapi" =>
          /\ generated = 1
          /\ reply.result = openapi_schema
          /\ Documents422(reply.result) = {}
          /\ DOMAIN reply.result.paths = {r.path : r \in Range(Routes)}

\* C28 witness: a later call of custom_openapi returned the stored schema
\* without generating it, and get_openapi generates "422" responses
C28_Witness ==
    /\ reply.status # "none" /\ reply.op = "custom_openapi"
    /\ generated = 1 /\ reply.generated = 0
    /\ reply.result = openapi_schema
    /\ Documents422(get_openapi(Routes)) # {}
    /\ "200" \in openapi_schema.paths["/v1/tripPlan"]["get"].responses

\* the reply is that of join_group to a request that bore a token
JoinedWithToken ==
    /\ reply.status # "none" /\ reply.op = "join_group"
    /\ reply.authorization.status = "held"

\* the token decodes under SECRET_KEY and HS256 at the time now: it is well
\* formed, of that algorithm, signed with that key, not expired, and its
\* subject, if it has one, is a string
Decodes(t, now) ==
    /\ t.wellformed
    /\ t.alg = "HS256"
    /\ t.key = SECRET_KEY
    /\ t.exp.status = "given" => t.exp.value > now
    /\ t.sub.type \in {"absent", "str"}

HasSub(t) == t.sub.type # "absent"

C30_LoginTokenAccepted ==
    (JoinedWithToken /\ reply.authorization.source = "login") =>
        /\ reply.current_user.status = "ok"
        /\ reply.result.status = "200"
        /\ reply.result.output.group_id = reply.group_id

=============================================================================
